---- MODULE Spec2Model ----
(***************************************************************************)
(* Model of the log_helper worker of rspamd (src/src/log_helper.c):        *)
(* start_log_helper (channel establishment, registration of the log pipe   *)
(* under the start mutex, event loop, shutdown), the reply handler and the *)
(* read callback that validates one frame and calls every Lua script.      *)
(*                                                                         *)
(* A frame is a sequence of units.  One unit stands for one field of the   *)
(* wire structures, so sizeof (struct rspamd_protocol_log_message_sum) is  *)
(* the number of header fields and sizeof (struct                          *)
(* rspamd_protocol_log_symbol_result) the number of fields of one result.  *)
(***************************************************************************)
EXTENDS Integers, Sequences, FiniteSets, TLC

(* ------------------------------ bounds --------------------------------- *)

\* sizeof (buf) of rspamd_log_helper_read, scaled to units
BufSize == 8
\* number of read callbacks explored
MaxReads == 2
\* largest number of scripts configured for the worker
MaxScripts == 2

(* --------------------------- wire structures --------------------------- *)

\* struct rspamd_protocol_log_message_sum without its flexible results[]
HeaderFields == <<"nresults", "score", "required_score", "settings_id">>
\* struct rspamd_protocol_log_symbol_result
ResultFields == <<"id", "score">>

HeaderSize == Len(HeaderFields)
ResultSize == Len(ResultFields)

RECURSIVE IndexOf(_, _, _)
IndexOf(seq, name, i) ==
    IF seq[i] = name THEN i ELSE IndexOf(seq, name, i + 1)

\* offset (1-based unit) of a header field inside the frame
HeaderOff(name) == IndexOf(HeaderFields, name, 1)
\* offset (1-based unit) of field `name` of results[i], i counted from 0
ResultOff(i, name) == HeaderSize + i * ResultSize + IndexOf(ResultFields, name, 1)

Min(a, b) == IF a < b THEN a ELSE b

(* ------------------------------ inputs --------------------------------- *)

\* what a peer writes: `len` units, the first one the announced count, the
\* others pairwise different values
Frame(len, n) == [p \in 1..len |-> IF p = 1 THEN n ELSE 10 * p]
\* a peer may announce one result more than a full buffer holds, and write
\* a frame that carries that many
MaxAnnounced == (BufSize - Len(HeaderFields)) \div Len(ResultFields) + 1
MaxSent == HeaderSize + MaxAnnounced * ResultSize
\* errno after a failed read (): no data yet, or the channel is unusable
Errnos == {"EAGAIN", "ECONNRESET"}
SentFrames ==
    {Frame(len, n) : len \in 0..MaxSent, n \in 0..MaxAnnounced}

\* what one script does with one call
Behaviours == {"ok", "fail"}

EXIT_SUCCESS == 0
EXIT_FAILURE == EXIT_SUCCESS + 1

NoStatus == EXIT_SUCCESS - 1
NoTable == <<"no table">>
\* what a load from outside the received units gives (no frame holds it)
Junk == 10 * MaxSent + 1

\* ctx->pair[0] is kept for the read callback, ctx->pair[1] goes to the server
RetainedFd == 0
TransferredFd == 1

VARIABLES
    pc,             \* position of start_log_helper
    have_seqpacket, \* HAVE_SOCK_SEQPACKET of the build
    attempts,       \* socketpair calls made: <<[mode, ok]>>
    pair,           \* ctx->pair: state of pair[0] and pair[1]
    cf_scripts,     \* worker->cf->scripts: cbrefs, in configuration order
    scripts,        \* ctx->scripts
    srv_cmd,        \* the static srv_cmd of start_log_helper
    start_mtx,      \* holder of worker->srv->start_mtx
    nlocks,         \* times this worker took start_mtx
    nsent,          \* rspamd_srv_send_command calls made
    reply,          \* state of the request: "none", "pending", "handled"
    log_ev,         \* TRUE once log_ev is added to the event base
    term,           \* a termination request was delivered
    loop_entered,   \* event_base_loop was called
    exit_status,    \* argument of exit (), NoStatus while running
    nreads,         \* read callbacks run
    r,              \* result of the last read ()
    buf,            \* the r units received by the last read ()
    sentlen,        \* length of the frame the peer wrote for the last read
    lastCalls,      \* script calls made by the last read callback
    msgs,           \* log lines written by the last read callback
    calls,          \* all script calls so far: <<[frame, script]>>
    wellformed,     \* per read: received length = header + nresults results
    allocs,         \* g_malloc calls for sm
    frees,          \* g_free calls for sm
    sm_state,       \* sm of the last read callback: "none", "freed" or "leaked"
    failed_before,  \* a script failed in a read before the last one
    holders,        \* processes between lock and unlock of start_mtx
    closes,         \* close () calls made on pair[0] and pair[1]
    errno,          \* errno of the last read (), "none" when it did not fail
    unread,         \* units of the last message still in the channel
    ops,            \* g_malloc, lua_pcall and g_free of the last read callback, in order
    max_off,        \* highest unit of the frame the last read callback loaded
    term_in_dispatch, \* the termination request came while scripts were being called
    lua_top,        \* depth of the ctx->L stack, relative to its depth at loop start
    lua_tops        \* depth after each script call of the last read callback

vars == <<pc, have_seqpacket, attempts, pair, cf_scripts, scripts, srv_cmd,
          start_mtx, nlocks, nsent, reply, log_ev, term, loop_entered,
          exit_status, nreads, r, buf, sentlen, lastCalls, msgs, calls,
          wellformed, allocs, frees, sm_state, failed_before, holders, closes,
          errno, unread, ops, max_off, term_in_dispatch, lua_top, lua_tops>>

startVars == <<pc, attempts, pair, scripts, srv_cmd, start_mtx, nlocks, nsent,
               reply, log_ev, term, loop_entered, exit_status>>
readVars == <<nreads, r, buf, sentlen, lastCalls, msgs, calls, wellformed,
              allocs, frees, sm_state, failed_before, errno, unread, ops, max_off,
              term_in_dispatch, lua_top, lua_tops>>
mtxVars == <<holders, closes>>

(* ------------------------- the read callback --------------------------- *)

\* read (fd, buf, sizeof (buf)) on a message-preserving socket: one message,
\* cut to the buffer
ReadInto(sent) == SubSeq(sent, 1, Min(Len(sent), BufSize))

\* the pair is SOCK_SEQPACKET or SOCK_DGRAM: what of a message does not fit the
\* buffer is dropped by the read, nothing of it is left for the next one
LeftoverKept(sent) == SubSeq(sent, Len(ReadInto(sent)) + 1, Len(sent))
Leftover(sent) == <<>>

\* r >= (gssize) sizeof (struct rspamd_protocol_log_message_sum)
HasHeaderStrict(rr) == rr > HeaderSize
HasHeader(rr) == rr >= HeaderSize

\* memcpy (&n, buf, sizeof (n))
Announced(b) == b[1]

\* (r - sizeof (*sm)) / sizeof (struct rspamd_protocol_log_symbol_result);
\* evaluated only when r >= sizeof (*sm), so the unsigned difference is r - sizeof
Available(rr) == (rr - HeaderSize) \div ResultSize

\* the else branch of the length check: the frame goes to the scripts
LengthOkAtLeast(rr, b) == Announced(b) <= Available(rr)
LengthOkUnchecked(rr, b) == TRUE
LengthOk(rr, b) == Announced(b) = Available(rr)

\* sm = g_malloc (r); memcpy (sm, buf, r)
CopyFrame(b, rr) == SubSeq(b, 1, rr)

\* a load of unit k of sm; sm holds the r units received and nothing else
Fetch(sm, k) == IF k \in 1..Len(sm) THEN sm[k] ELSE Junk

\* lua_pushnumber: the fields are 32 bit integers and doubles and lua_Number
\* is a double, so every value is pushed exactly
LuaNumber(x) == x

\* the table of {id, score} tables, entry i + 1 from sm->results[i]
LuaSymbolResults(sm, n) ==
    [k \in 1..n |-> <<LuaNumber(Fetch(sm, ResultOff(k - 1, "id"))),
                      LuaNumber(Fetch(sm, ResultOff(k - 1, "score")))>>]

\* lua_createtable (ctx->L, n, 0) inside DL_FOREACH: a new table per script,
\* whatever the previous script did with its own (prev)
SymbolsTableShared(sm, n, prev) ==
    IF prev = NoTable THEN LuaSymbolResults(sm, n) ELSE prev
SymbolsTable(sm, n, prev) == LuaSymbolResults(sm, n)

\* the five arguments pushed for one script
HandlerArgs(sm, tbl) ==
    [score          |-> LuaNumber(Fetch(sm, HeaderOff("score"))),
     required_score |-> LuaNumber(Fetch(sm, HeaderOff("required_score"))),
     symbols        |-> tbl,
     cfg            |-> "rspamd{config}",
     settings_id    |-> LuaNumber(Fetch(sm, HeaderOff("settings_id")))]

\* the units of sm loaded to build the arguments of one call
ArgLoads(n) ==
    {HeaderOff("score"), HeaderOff("required_score"), HeaderOff("settings_id")}
    \cup {ResultOff(i, f) : i \in 0..(n - 1), f \in {"id", "score"}}

SetMax(S) == IF S = {} THEN 0 ELSE CHOOSE x \in S : \A y \in S : y <= x

\* a script owns the table it was given and may change it: taken as emptied
TableAfter(tbl) == <<>>

\* DL_FOREACH goes to sc->next whether lua_pcall failed or not
NextScriptBreak(j, ok, m) == IF ok THEN j + 1 ELSE m + 1
NextScript(j, ok, m) == j + 1

\* DL_FOREACH runs to the end of the list; sig is the script during whose
\* call a termination request arrived (0: none), which the loop does not test
MoreScriptsUnlessTerm(j, m, sig) == j <= m /\ (sig = 0 \/ j <= sig)
MoreScripts(j, m, sig) == j <= m

\* the DL_FOREACH loop from script j on
RECURSIVE Dispatch(_, _, _, _, _, _, _)
Dispatch(sm, n, scr, behs, j, prev, sig) ==
    IF ~MoreScripts(j, Len(scr), sig) THEN <<>>
    ELSE LET tbl == SymbolsTable(sm, n, prev)
             ok  == behs[j] # "fail"
         IN  <<[script |-> j, cbref |-> scr[j], args |-> HandlerArgs(sm, tbl),
                ok |-> ok, left |-> TableAfter(tbl)]>>
             \o Dispatch(sm, n, scr, behs, NextScript(j, ok, Len(scr)),
                         TableAfter(tbl), sig)

\* msg_err ("error executing log handler code: ...") of the failed calls
PcallErrorsSilent(cs) == <<>>
RECURSIVE PcallErrors(_)
PcallErrors(cs) ==
    IF cs = <<>> THEN <<>>
    ELSE (IF Head(cs).ok THEN <<>>
          ELSE <<[level |-> "err", what |-> "handler", script |-> Head(cs).script]>>)
         \o PcallErrors(Tail(cs))

AnyFailed(cs) == \E k \in 1..Len(cs) : ~cs[k].ok

BadLength(n, avail) ==
    [level |-> "warn", what |-> "bad length", announced |-> n, available |-> avail]
ReadError(e) == [level |-> "warn", what |-> "read error", errno |-> e]

\* g_malloc, one lua_pcall per call made, g_free
CallOps(cs) == <<"g_malloc">> \o [k \in 1..Len(cs) |-> "lua_pcall"] \o <<"g_free">>

\* lua_pcall (ctx->L, 5, 0, 0)
PcallArgs == 5
PcallResults == 0

\* what each Lua API call made for one result does to the stack depth:
\* lua_createtable, lua_pushnumber, lua_rawseti, lua_pushnumber, lua_rawseti,
\* lua_rawseti
ResultPushes == <<1, 1, -1, 1, -1, -1>>
RECURSIVE Repeat(_, _)
Repeat(seq, n) == IF n <= 0 THEN <<>> ELSE seq \o Repeat(seq, n - 1)

\* the calls made for one script before lua_pcall: lua_rawgeti, two
\* lua_pushnumber, lua_createtable, the results, lua_newuserdata,
\* rspamd_lua_setclass, lua_pushnumber
HandlerPushes(n) == <<1, 1, 1, 1>> \o Repeat(ResultPushes, n) \o <<1, 0, 1>>
RECURSIVE StackSum(_)
StackSum(seq) == IF seq = <<>> THEN 0 ELSE Head(seq) + StackSum(Tail(seq))

\* lua_pcall takes the function and its arguments off the stack and leaves
\* the results, or the error message when the call failed
LuaPcall(d, ok) ==
    IF ok THEN d - (PcallArgs + 1) + PcallResults
    ELSE d - (PcallArgs + 1) + 1

\* lua_pop (ctx->L, 1) after msg_err
PopErrorMissing(d) == d
PopError(d) == d - 1

\* the depth after one pass of the DL_FOREACH body entered at depth d
StackAfterCall(d, n, ok) ==
    LET after == LuaPcall(d + StackSum(HandlerPushes(n)), ok)
    IN  IF ok THEN after ELSE PopError(after)

\* the depth after each call of cs, the first one entered at depth d
RECURSIVE StackTops(_, _, _)
StackTops(d, cs, n) ==
    IF cs = <<>> THEN <<>>
    ELSE LET t == StackAfterCall(d, n, Head(cs).ok)
         IN  <<t>> \o StackTops(t, Tail(cs), n)

Discarded(ms) ==
    [calls |-> <<>>, msgs |-> ms, alloc |-> 0, free |-> 0, ops |-> <<>>, loads |-> {},
     tops |-> <<>>]

\* the body of rspamd_log_helper_read after read () returned rr
ReadOutcomeEager(rr, b, e, scr, behs, sig) ==
    IF HasHeader(rr) /\ LengthOk(rr, b)
    THEN LET cs == Dispatch(CopyFrame(b, rr), Announced(b), scr, behs, 1, NoTable, sig)
         IN  [calls |-> cs, msgs |-> PcallErrors(cs), alloc |-> 1, free |-> 1,
              ops |-> CallOps(cs),
              loads |-> 1..rr \cup (IF cs = <<>> THEN {} ELSE ArgLoads(Announced(b))),
              tops |-> StackTops(0, cs, Announced(b))]
    ELSE [calls |-> <<>>,
          msgs |-> IF HasHeader(rr) THEN <<BadLength(Announced(b), Available(rr))>>
                   ELSE IF rr = -1 THEN <<ReadError(e)>> ELSE <<>>,
          alloc |-> IF rr >= 0 THEN 1 ELSE 0,
          free |-> IF rr >= 0 THEN 1 ELSE 0,
          ops |-> IF rr >= 0 THEN <<"g_malloc", "g_free">> ELSE <<>>,
          loads |-> IF rr >= 0 THEN 1..rr ELSE {},
          tops |-> <<>>]
ReadOutcomeLeakOnError(rr, b, e, scr, behs, sig) ==
    IF HasHeader(rr) /\ LengthOk(rr, b)
    THEN LET cs == Dispatch(CopyFrame(b, rr), Announced(b), scr, behs, 1, NoTable, sig)
             fr == IF AnyFailed(cs) THEN 0 ELSE 1
         IN  [calls |-> cs, msgs |-> PcallErrors(cs), alloc |-> 1, free |-> fr,
              ops |-> SubSeq(CallOps(cs), 1, Len(cs) + 1 + fr),
              loads |-> 1..rr \cup (IF cs = <<>> THEN {} ELSE ArgLoads(Announced(b))),
              tops |-> StackTops(0, cs, Announced(b))]
    ELSE Discarded(IF HasHeader(rr) THEN <<BadLength(Announced(b), Available(rr))>>
                   ELSE IF rr = -1 THEN <<ReadError(e)>> ELSE <<>>)
ReadOutcome(rr, b, e, scr, behs, sig) ==
    IF HasHeader(rr)
    THEN IF ~LengthOk(rr, b)
         THEN [Discarded(<<BadLength(Announced(b), Available(rr))>>)
                    EXCEPT !.loads = {1}]
         ELSE LET sm == CopyFrame(b, rr)
                  cs == Dispatch(sm, Announced(b), scr, behs, 1, NoTable, sig)
              IN  [calls |-> cs, msgs |-> PcallErrors(cs), alloc |-> 1, free |-> 1,
                   ops |-> CallOps(cs),
                   loads |-> 1..rr \cup (IF cs = <<>> THEN {} ELSE ArgLoads(Announced(b))),
              tops |-> StackTops(0, cs, Announced(b))]
    ELSE IF rr = -1
         THEN Discarded(<<ReadError(e)>>)
         ELSE Discarded(<<>>)

\* the event loop runs callbacks until a termination request is seen
LoopRunning == pc = "loop" /\ ~term

\* the results read () can give: an error, or one message of the peer
\* (after whatever an earlier read left in the channel)
MessageRead(msg) ==
    [r |-> Len(ReadInto(msg)), buf |-> ReadInto(msg), sentlen |-> Len(msg),
     errno |-> "none", rest |-> Leftover(msg)]
WholeMessages == {MessageRead(s) : s \in SentFrames}
ReadResults ==
    {[r |-> -1, buf |-> <<>>, sentlen |-> 0, errno |-> e, rest |-> unread] : e \in Errnos}
    \cup (IF unread = <<>> THEN WholeMessages
          ELSE {MessageRead(unread \o s) : s \in SentFrames})

Accepted(rr, b) == HasHeader(rr) /\ LengthOk(rr, b)

BehaviourChoices(res, scr) ==
    IF Accepted(res.r, res.buf)
    THEN [1..Len(scr) -> Behaviours]
    ELSE {[j \in 1..Len(scr) |-> "ok"]}

\* a termination request may arrive while the first script is being called
SignalChoices(res, scr) ==
    IF Accepted(res.r, res.buf) /\ Len(scr) > 0 THEN {0, 1} ELSE {0}

RECURSIVE CallLog(_, _)
CallLog(cs, frame) ==
    IF cs = <<>> THEN <<>>
    ELSE <<[frame |-> frame, script |-> Head(cs).script]>> \o CallLog(Tail(cs), frame)

\* event_set (..., EV_READ | EV_PERSIST, ...): the event stays added after it fired
LogEvFlagsOnce == {"EV_READ"}
LogEvFlags == {"EV_READ", "EV_PERSIST"}

rspamd_log_helper_read ==
    /\ LoopRunning
    /\ log_ev
    /\ nreads < MaxReads
    /\ \E res \in ReadResults :
         \E behs \in BehaviourChoices(res, scripts), sig \in SignalChoices(res, scripts) :
            \E out \in {ReadOutcome(res.r, res.buf, res.errno, scripts, behs, sig)} :
            /\ nreads' = nreads + 1
            /\ r' = res.r
            /\ buf' = res.buf
            /\ sentlen' = res.sentlen
            /\ errno' = res.errno
            /\ unread' = res.rest
            /\ lastCalls' = out.calls
            /\ msgs' = out.msgs
            /\ calls' = calls \o CallLog(out.calls, nreads + 1)
            /\ wellformed' = Append(wellformed,
                    /\ res.r >= HeaderSize
                    /\ res.r = HeaderSize + res.buf[1] * ResultSize)
            /\ allocs' = allocs + out.alloc
            /\ frees' = frees + out.free
            /\ sm_state' = IF out.alloc = 0 THEN "none"
                           ELSE IF out.free = out.alloc THEN "freed" ELSE "leaked"
            /\ ops' = out.ops
            /\ max_off' = SetMax(out.loads)
            /\ lua_tops' = [k \in 1..Len(out.tops) |-> lua_top + out.tops[k]]
            /\ lua_top' = IF out.tops = <<>> THEN lua_top
                          ELSE lua_top + out.tops[Len(out.tops)]
            /\ failed_before' = (failed_before \/ AnyFailed(lastCalls))
            /\ term' = (sig > 0)
            /\ term_in_dispatch' = (sig > 0)
    /\ log_ev' = ("EV_PERSIST" \in LogEvFlags)
    /\ UNCHANGED <<have_seqpacket, cf_scripts, pc, attempts, pair, scripts, srv_cmd,
                   start_mtx, nlocks, nsent, reply, loop_entered, exit_status>>
    /\ UNCHANGED mtxVars

(* --------------------------- start_log_helper -------------------------- *)

\* rspamd_prepare_worker and the copies into the context
start_prepare ==
    /\ pc = "start"
    /\ scripts' = cf_scripts
    /\ pc' = "socketpair"
    /\ UNCHANGED <<have_seqpacket, cf_scripts, attempts, pair, srv_cmd, start_mtx,
                   nlocks, nsent, reply, log_ev, term, loop_entered, exit_status>>
    /\ UNCHANGED readVars
    /\ UNCHANGED mtxVars

\* r == -1 && socketpair (AF_LOCAL, SOCK_DGRAM, ...): the second call is made
\* only when the first was not compiled in or failed
TryDgramAlways(rr) == TRUE
TryDgram(rr) == rr = -1

\* exit status when no socketpair can be made
NoPairStatusFailure == EXIT_FAILURE
NoPairStatus == EXIT_SUCCESS

Opened == [i \in {0, 1} |-> "open"]

start_socketpair ==
    /\ pc = "socketpair"
    /\ \E seq_ok \in BOOLEAN, dgram_ok \in BOOLEAN :
         LET first  == IF have_seqpacket
                       THEN <<[mode |-> "SEQPACKET", ok |-> seq_ok]>> ELSE <<>>
             r1     == IF have_seqpacket /\ seq_ok THEN 0 ELSE -1
             second == IF TryDgram(r1)
                       THEN <<[mode |-> "DGRAM", ok |-> dgram_ok]>> ELSE <<>>
             failed == TryDgram(r1) /\ ~dgram_ok
         IN  /\ attempts' = first \o second
             /\ IF failed
                THEN /\ pc' = "exited"
                     /\ exit_status' = NoPairStatus
                     /\ pair' = pair
                ELSE /\ pc' = "build_cmd"
                     /\ exit_status' = exit_status
                     /\ pair' = Opened
    /\ UNCHANGED <<have_seqpacket, cf_scripts, scripts, srv_cmd, start_mtx, nlocks,
                   nsent, reply, log_ev, term, loop_entered>>
    /\ UNCHANGED readVars
    /\ UNCHANGED mtxVars

\* srv_cmd.type = RSPAMD_SRV_LOG_PIPE; srv_cmd.cmd.log_pipe.type = ...
start_build_cmd ==
    /\ pc = "build_cmd"
    /\ srv_cmd' = [type |-> "RSPAMD_SRV_LOG_PIPE", log_pipe |-> "RSPAMD_LOG_PIPE_SYMBOLS"]
    /\ pc' = "lock"
    /\ UNCHANGED <<have_seqpacket, cf_scripts, attempts, pair, scripts, start_mtx,
                   nlocks, nsent, reply, log_ev, term, loop_entered, exit_status>>
    /\ UNCHANGED readVars
    /\ UNCHANGED mtxVars

\* rspamd_mempool_lock_mutex (worker->srv->start_mtx)
start_lock_mutex_nowait ==
    /\ pc = "lock"
    /\ start_mtx' = "log_helper"
    /\ nlocks' = nlocks + 1
    /\ pc' = "send"
    /\ holders' = holders \cup {"log_helper"}
    /\ UNCHANGED <<have_seqpacket, cf_scripts, attempts, pair, scripts, srv_cmd,
                   nsent, reply, log_ev, term, loop_entered, exit_status, closes>>
    /\ UNCHANGED readVars
start_lock_mutex ==
    /\ pc = "lock"
    /\ start_mtx = "free"
    /\ start_mtx' = "log_helper"
    /\ nlocks' = nlocks + 1
    /\ pc' = "send"
    /\ UNCHANGED <<have_seqpacket, cf_scripts, attempts, pair, scripts, srv_cmd,
                   nsent, reply, log_ev, term, loop_entered, exit_status>>
    /\ UNCHANGED readVars
    /\ holders' = holders \cup {"log_helper"}
    /\ UNCHANGED closes

\* rspamd_srv_send_command (worker, ev_base, &srv_cmd, pair[1], reply_handler, ctx)
start_send_command_listening ==
    /\ pc = "send"
    /\ nsent' = nsent + 1
    /\ reply' = "pending"
    /\ log_ev' = TRUE
    /\ pc' = "unlock"
    /\ UNCHANGED <<have_seqpacket, cf_scripts, attempts, pair, scripts, srv_cmd,
                   start_mtx, nlocks, term, loop_entered, exit_status>>
    /\ UNCHANGED readVars
    /\ UNCHANGED mtxVars
start_send_command ==
    /\ pc = "send"
    /\ nsent' = nsent + 1
    /\ reply' = "pending"
    /\ pc' = "unlock"
    /\ UNCHANGED <<have_seqpacket, cf_scripts, attempts, pair, scripts, srv_cmd,
                   start_mtx, nlocks, log_ev, term, loop_entered, exit_status>>
    /\ UNCHANGED readVars
    /\ UNCHANGED mtxVars

\* rspamd_mempool_unlock_mutex (worker->srv->start_mtx)
start_unlock_mutex_deferred ==
    /\ pc = "unlock"
    /\ pc' = "enter_loop"
    /\ UNCHANGED <<have_seqpacket, cf_scripts, attempts, pair, scripts, srv_cmd,
                   start_mtx, nlocks, nsent, reply, log_ev, term, loop_entered,
                   exit_status>>
    /\ UNCHANGED readVars
    /\ UNCHANGED mtxVars
start_unlock_mutex ==
    /\ pc = "unlock"
    /\ start_mtx' = "free"
    /\ pc' = "enter_loop"
    /\ UNCHANGED <<have_seqpacket, cf_scripts, attempts, pair, scripts, srv_cmd,
                   nlocks, nsent, reply, log_ev, term, loop_entered, exit_status>>
    /\ UNCHANGED readVars
    /\ holders' = holders \ {"log_helper"}
    /\ UNCHANGED closes

\* event_base_loop (ctx->ev_base, 0) is called
start_event_loop ==
    /\ pc = "enter_loop"
    /\ loop_entered' = TRUE
    /\ pc' = "loop"
    /\ UNCHANGED <<have_seqpacket, cf_scripts, attempts, pair, scripts, srv_cmd,
                   start_mtx, nlocks, nsent, reply, log_ev, term, exit_status>>
    /\ UNCHANGED readVars
    /\ UNCHANGED mtxVars

\* close (ctx->pair[1]) of the reply handler
FdClosedOnReplyRetained == RetainedFd
FdClosedOnReply == TransferredFd

\* the supervisor's reply arrives: rspamd_log_helper_reply_handler
rspamd_log_helper_reply_handler ==
    /\ LoopRunning
    /\ reply = "pending"
    /\ reply' = "handled"
    /\ pair' = [pair EXCEPT ![FdClosedOnReply] = "closed"]
    /\ log_ev' = TRUE
    /\ UNCHANGED <<have_seqpacket, cf_scripts, pc, attempts, scripts, srv_cmd,
                   start_mtx, nlocks, nsent, term, loop_entered, exit_status>>
    /\ UNCHANGED readVars
    /\ closes' = [closes EXCEPT ![FdClosedOnReply] = @ + 1]
    /\ UNCHANGED holders

\* a termination signal is delivered to the worker in its event loop
term_signal ==
    /\ pc = "loop"
    /\ ~term
    /\ term' = TRUE
    /\ UNCHANGED <<have_seqpacket, cf_scripts, pc, attempts, pair, scripts, srv_cmd,
                   start_mtx, nlocks, nsent, reply, log_ev, loop_entered, exit_status>>
    /\ UNCHANGED readVars
    /\ UNCHANGED mtxVars

\* event_base_loop returns
event_loop_exit ==
    /\ pc = "loop"
    /\ term
    /\ pc' = "close"
    /\ UNCHANGED <<have_seqpacket, cf_scripts, attempts, pair, scripts, srv_cmd,
                   start_mtx, nlocks, nsent, reply, log_ev, term, loop_entered,
                   exit_status>>
    /\ term_in_dispatch' = FALSE
    /\ UNCHANGED <<nreads, r, buf, sentlen, lastCalls, msgs, calls, wellformed,
                   allocs, frees, sm_state, failed_before, errno, unread, ops, max_off,
                   lua_top, lua_tops>>
    /\ UNCHANGED mtxVars

\* close (ctx->pair[0])
start_close_pair ==
    /\ pc = "close"
    /\ pair' = [pair EXCEPT ![RetainedFd] = "closed"]
    /\ pc' = "shutdown"
    /\ UNCHANGED <<have_seqpacket, cf_scripts, attempts, scripts, srv_cmd, start_mtx,
                   nlocks, nsent, reply, log_ev, term, loop_entered, exit_status>>
    /\ UNCHANGED readVars
    /\ closes' = [closes EXCEPT ![RetainedFd] = @ + 1]
    /\ UNCHANGED holders

\* rspamd_worker_block_signals; rspamd_log_close; exit (EXIT_SUCCESS)
LoopExitStatus == EXIT_SUCCESS

start_exit ==
    /\ pc = "shutdown"
    /\ exit_status' = LoopExitStatus
    /\ pc' = "exited"
    /\ UNCHANGED <<have_seqpacket, cf_scripts, attempts, pair, scripts, srv_cmd,
                   start_mtx, nlocks, nsent, reply, log_ev, term, loop_entered>>
    /\ UNCHANGED readVars
    /\ UNCHANGED mtxVars

(* ------------------------- sibling workers ----------------------------- *)

\* another worker of the daemon takes the start mutex for its own start
sibling_lock ==
    /\ start_mtx = "free"
    /\ pc \in {"start", "socketpair", "build_cmd", "lock"}
    /\ start_mtx' = "sibling"
    /\ UNCHANGED <<have_seqpacket, cf_scripts, pc, attempts, pair, scripts, srv_cmd,
                   nlocks, nsent, reply, log_ev, term, loop_entered, exit_status>>
    /\ UNCHANGED readVars
    /\ holders' = holders \cup {"sibling"}
    /\ UNCHANGED closes

sibling_unlock ==
    /\ start_mtx = "sibling"
    /\ start_mtx' = "free"
    /\ UNCHANGED <<have_seqpacket, cf_scripts, pc, attempts, pair, scripts, srv_cmd,
                   nlocks, nsent, reply, log_ev, term, loop_entered, exit_status>>
    /\ UNCHANGED readVars
    /\ holders' = holders \ {"sibling"}
    /\ UNCHANGED closes

(* --------------------------- specification ----------------------------- *)

\* the state after init_log_helper (g_malloc0) and the configuration
Init ==
    /\ pc = "start"
    /\ have_seqpacket \in BOOLEAN
    /\ attempts = <<>>
    /\ pair = [i \in {0, 1} |-> "none"]
    /\ cf_scripts \in {[j \in 1..m |-> 100 + j] : m \in 0..MaxScripts}
    /\ scripts = <<>>
    /\ srv_cmd = [type |-> "unset", log_pipe |-> "unset"]
    /\ start_mtx = "free"
    /\ nlocks = 0
    /\ nsent = 0
    /\ reply = "none"
    /\ log_ev = FALSE
    /\ term = FALSE
    /\ loop_entered = FALSE
    /\ exit_status = NoStatus
    /\ nreads = 0
    /\ r = 0
    /\ buf = <<>>
    /\ sentlen = 0
    /\ lastCalls = <<>>
    /\ msgs = <<>>
    /\ calls = <<>>
    /\ wellformed = <<>>
    /\ allocs = 0
    /\ frees = 0
    /\ sm_state = "none"
    /\ failed_before = FALSE
    /\ holders = {}
    /\ closes = [i \in {0, 1} |-> 0]
    /\ errno = "none"
    /\ unread = <<>>
    /\ ops = <<>>
    /\ max_off = 0
    /\ term_in_dispatch = FALSE
    /\ lua_top = 0
    /\ lua_tops = <<>>

Next ==
    \/ start_prepare
    \/ start_socketpair
    \/ start_build_cmd
    \/ start_lock_mutex
    \/ start_send_command
    \/ start_unlock_mutex
    \/ start_event_loop
    \/ rspamd_log_helper_reply_handler
    \/ rspamd_log_helper_read
    \/ term_signal
    \/ event_loop_exit
    \/ start_close_pair
    \/ start_exit
    \/ sibling_lock
    \/ sibling_unlock

Spec == Init /\ [][Next]_vars

\* Every step of start_log_helper that can be taken is taken.  The start
\* mutex is taken by finitely many starting workers, once each, so a worker
\* waiting for it gets it (strong fairness of the lock); a sibling that took
\* it releases it; the event loop returns once termination was requested.
FairSpec ==
    /\ Spec
    /\ WF_vars(start_prepare)
    /\ WF_vars(start_socketpair)
    /\ WF_vars(start_build_cmd)
    /\ SF_vars(start_lock_mutex)
    /\ WF_vars(start_send_command)
    /\ WF_vars(start_unlock_mutex)
    /\ WF_vars(start_event_loop)
    /\ WF_vars(sibling_unlock)
    /\ WF_vars(event_loop_exit)
    /\ WF_vars(start_close_pair)
    /\ WF_vars(start_exit)

(* ------------------------ states of the dispatch loop ------------------ *)

\* NotStarted -> WaitingForRegistration -> Running -> Stopped
DispatchState ==
    IF pc \in {"close", "shutdown", "exited"} THEN "Stopped"
    ELSE IF pc \in {"enter_loop", "loop"}
         THEN (IF log_ev THEN "Running" ELSE "WaitingForRegistration")
         ELSE "NotStarted"

(* ------------------------------ properties ----------------------------- *)

\* the frame of the last read callback, as the wire format describes it
LastRead == nreads > 0
WireCount == buf[1]
WireResult(i) ==
    <<buf[HeaderSize + (i - 1) * ResultSize + 1], buf[HeaderSize + (i - 1) * ResultSize + 2]>>
WirePayload ==
    [score          |-> buf[HeaderOff("score")],
     required_score |-> buf[HeaderOff("required_score")],
     symbols        |-> [i \in 1..WireCount |-> WireResult(i)],
     cfg            |-> "rspamd{config}",
     settings_id    |-> buf[HeaderOff("settings_id")]]
ExactLength == r >= HeaderSize /\ r = HeaderSize + WireCount * ResultSize
CallsOfLastRead == {p \in 1..Len(calls) : calls[p].frame = nreads}

\* C1: a frame whose received length is header_size + symbol_count *
\* symbol_result_size (symbol_count = 0 included) is accepted, and every
\* registered script is called, in order, with a symbol list of exactly
\* symbol_count entries, entry i being the (id, score) pair at position i of
\* the frame, and with the frame's score, required_score and settings_id.
C1_ExactFrameDispatched ==
    (LastRead /\ ExactLength) =>
        /\ sm_state # "none"
        /\ Len(lastCalls) = Len(scripts)
        /\ \A j \in 1..Len(lastCalls) :
             /\ lastCalls[j].cbref = scripts[j]
             /\ Len(lastCalls[j].args.symbols) = WireCount
             /\ \A i \in 1..WireCount : lastCalls[j].args.symbols[i] = WireResult(i)
             /\ lastCalls[j].args.score = buf[HeaderOff("score")]
             /\ lastCalls[j].args.required_score = buf[HeaderOff("required_score")]
             /\ lastCalls[j].args.settings_id = buf[HeaderOff("settings_id")]

\* Scenario 1: two results announced and present, both scripts called
C1_Witness ==
    /\ LastRead /\ ExactLength /\ WireCount = 2
    /\ Len(scripts) = 2 /\ Len(lastCalls) = 2
    /\ lastCalls[2].args.symbols = <<WireResult(1), WireResult(2)>>

\* C2: a frame of at least header_size units whose announced count differs
\* from the number of results its trailing units hold is rejected: no script
\* is called for it and exactly one warning is logged.
C2_CountMismatchRejected ==
    (LastRead /\ r >= HeaderSize /\ WireCount # (r - HeaderSize) \div ResultSize) =>
        /\ lastCalls = <<>>
        /\ CallsOfLastRead = {}
        /\ Len(msgs) = 1
        /\ msgs[1].level = "warn"

\* Scenario 2: three results announced, two present, scripts configured
C2_Witness ==
    /\ LastRead /\ r = HeaderSize + 2 * ResultSize /\ WireCount = 3
    /\ Len(scripts) >= 1
    /\ msgs = <<BadLength(3, 2)>>

\* C3: a frame with units left over after its last whole result is invalid
\* and no script is called: scripts are called only for a frame whose length
\* is exactly header_size + symbol_count * symbol_result_size.
C3_ExactLengthOnly ==
    /\ (LastRead /\ r >= HeaderSize /\ (r - HeaderSize) % ResultSize # 0) =>
            (lastCalls = <<>> /\ sm_state = "none")
    /\ (LastRead /\ lastCalls # <<>>) => ExactLength

\* C4: a read that returns fewer units than header_size (0 included) is
\* invalid: no script is called, no record is built and the worker goes on
\* running (it leaves its loop only on a termination request).
C4_ShortReadDiscarded ==
    (LastRead /\ r < HeaderSize) =>
        /\ lastCalls = <<>>
        /\ CallsOfLastRead = {}
        /\ sm_state = "none"
        /\ (~term => pc = "loop" /\ exit_status = NoStatus)

\* a read of 0 units, the worker still in its loop
C4_Witness ==
    /\ LastRead /\ r = 0 /\ pc = "loop" /\ ~term /\ Len(scripts) >= 1

\* C5: when the call of script k fails the failure is logged, the scripts
\* after k are still called for the same frame, the loop keeps running, and
\* a frame read after a failure is handled like any other.
C5_HandlerIsolation ==
    /\ \A k \in 1..Len(lastCalls) :
         ~lastCalls[k].ok =>
            /\ \E i \in 1..Len(msgs) : msgs[i].level = "err" /\ msgs[i].script = k
            /\ Len(lastCalls) = Len(scripts)
            /\ \A j \in (k + 1)..Len(scripts) : lastCalls[j].cbref = scripts[j]
            /\ (~term => pc = "loop" /\ log_ev)
    /\ (failed_before /\ LastRead /\ ExactLength) =>
            /\ Len(lastCalls) = Len(scripts)
            /\ \A j \in 1..Len(lastCalls) :
                 lastCalls[j].cbref = scripts[j] /\ lastCalls[j].args = WirePayload

\* the first of two scripts failed, for this frame and for an earlier one
C5_Witness ==
    /\ failed_before
    /\ Len(lastCalls) = 2
    /\ ~lastCalls[1].ok
    /\ lastCalls[2].cbref = scripts[2]
    /\ pc = "loop"

\* C6: after n valid frames every script was called exactly n times, once a
\* frame, in configuration order within a frame and frame after frame,
\* whichever calls failed.
AllWellFormed == \A k \in 1..Len(wellformed) : wellformed[k]
CallsOf(j) == {p \in 1..Len(calls) : calls[p].script = j}
C6_OncePerFrameInOrder ==
    AllWellFormed =>
        /\ \A j \in 1..Len(scripts) :
             /\ Cardinality(CallsOf(j)) = nreads
             /\ \A f \in 1..nreads :
                  Cardinality({p \in CallsOf(j) : calls[p].frame = f}) = 1
        /\ Len(calls) = nreads * Len(scripts)
        /\ \A p, q \in 1..Len(calls) :
             p < q =>
                \/ calls[p].frame < calls[q].frame
                \/ calls[p].frame = calls[q].frame /\ calls[p].script < calls[q].script

\* two valid frames to two scripts, with a failed call in each frame
C6_Witness ==
    /\ nreads >= 2 /\ AllWellFormed /\ Len(scripts) = 2
    /\ failed_before /\ AnyFailed(lastCalls)
    /\ Len(calls) = 2 * nreads

\* C7: every script called for a frame gets the same payload, the one the
\* frame holds, whether or not earlier scripts failed or changed the symbol
\* list they were given.
C7_SamePayload ==
    /\ \A j, k \in 1..Len(lastCalls) : lastCalls[j].args = lastCalls[k].args
    /\ \A j \in 1..Len(lastCalls) : lastCalls[j].args = WirePayload

\* the first script failed and emptied its list, the second still got it whole
C7_Witness ==
    /\ Len(lastCalls) = 2
    /\ WireCount >= 1
    /\ ~lastCalls[1].ok
    /\ lastCalls[1].left # lastCalls[1].args.symbols
    /\ Len(lastCalls[2].args.symbols) = WireCount

\* C8: SOCK_SEQPACKET is tried first, SOCK_DGRAM only when SOCK_SEQPACKET is
\* not compiled in or failed, nothing is tried after that; when the datagram
\* pair is made the worker does not exit and goes on to the registration.
Tried(mode) == \E i \in 1..Len(attempts) : attempts[i].mode = mode
DgramMade == attempts # <<>> /\ attempts[Len(attempts)] = [mode |-> "DGRAM", ok |-> TRUE]
C8_SingleFallback ==
    /\ Len(attempts) <= 2
    /\ \A i \in 1..Len(attempts) :
         /\ attempts[i].mode = "SEQPACKET" => (i = 1 /\ have_seqpacket)
         /\ attempts[i].mode = "DGRAM" =>
                \/ i = 1 /\ ~have_seqpacket
                \/ i = 2 /\ attempts[1] = [mode |-> "SEQPACKET", ok |-> FALSE]
         /\ attempts[i].ok => i = Len(attempts)
    /\ DgramMade =>
         /\ pair[0] # "none"
         /\ pc \notin {"start", "socketpair"}
         /\ srv_cmd.type = "unset" => pc = "build_cmd"
         /\ pc = "exited" => (nsent = 1 /\ loop_entered)

\* the ordered mode failed, the datagram mode worked, the command was sent
C8_Witness ==
    /\ attempts = <<[mode |-> "SEQPACKET", ok |-> FALSE], [mode |-> "DGRAM", ok |-> TRUE]>>
    /\ nsent = 1
    /\ pc = "loop"

\* C9: when both modes fail the worker exits at once with a success status,
\* having sent no registration, never taken the start mutex and never
\* entered the event loop; the exit after the loop reports success too.
BothFailed == attempts # <<>> /\ \A i \in 1..Len(attempts) : ~attempts[i].ok
C9_ExitSuccess ==
    /\ BothFailed =>
         /\ pc = "exited"
         /\ exit_status = EXIT_SUCCESS
         /\ nsent = 0
         /\ nlocks = 0
         /\ start_mtx # "log_helper"
         /\ ~loop_entered
         /\ reply = "none"
         /\ nreads = 0
    /\ pc = "exited" => exit_status = EXIT_SUCCESS
    /\ exit_status # NoStatus => pc = "exited"

\* both socketpair calls were made and failed
C9_Witness ==
    /\ Len(attempts) = 2 /\ BothFailed /\ pc = "exited"

\* C10 as stated: the start mutex is taken before the registration command
\* is constructed and sent, released only after the send call returned and
\* before the event loop starts, and not held in WaitingForRegistration,
\* Running or Stopped.
SentUnderMutex ==
    /\ pc = "send" => start_mtx = "log_helper"
    /\ nsent > 0 => nlocks > 0
    /\ pc = "unlock" => (start_mtx = "log_helper" /\ nsent = 1)
    /\ start_mtx = "log_helper" => pc \in {"send", "unlock"}
    /\ DispatchState \in {"WaitingForRegistration", "Running", "Stopped"} =>
            start_mtx # "log_helper"
C10_AcquiredBeforeConstructed ==
    /\ srv_cmd.type # "unset" => nlocks > 0
    /\ SentUnderMutex

\* C10 amended: the command is filled in first; the start mutex is taken
\* after that and before the command is sent, released only after the send
\* call returned and before the event loop starts, and not held in
\* WaitingForRegistration, Running or Stopped.
C10_AcquiredBeforeSent ==
    /\ nlocks > 0 => srv_cmd.type = "RSPAMD_SRV_LOG_PIPE"
    /\ pc = "lock" => (srv_cmd.type = "RSPAMD_SRV_LOG_PIPE" /\ nlocks = 0)
    /\ SentUnderMutex

\* the send call has returned and the mutex is still held
C10_Witness ==
    /\ pc = "unlock" /\ start_mtx = "log_helper" /\ nsent = 1 /\ reply = "pending"

\* C11: at most one worker at a time is between taking and releasing the
\* start mutex, and the registration is sent by the one that holds it; this
\* worker releases the mutex it took, and a worker waiting for the mutex
\* gets to send its registration.
C11_Exclusion ==
    /\ Cardinality(holders) <= 1
    /\ holders = (IF start_mtx = "free" THEN {} ELSE {start_mtx})
    /\ ("log_helper" \in holders) <=> (pc \in {"send", "unlock"})
    /\ nsent > 0 => nlocks = 1
C11_HandshakesSerialized ==
    /\ []C11_Exclusion
    /\ (pc = "lock") ~> (nsent = 1)
    /\ ("log_helper" \in holders) ~> ("log_helper" \notin holders)

\* this worker waits at the lock while a sibling holds the mutex
C11_Witness ==
    /\ pc = "lock" /\ holders = {"sibling"} /\ nsent = 0

\* C12: the dispatch loop goes NotStarted, WaitingForRegistration, Running,
\* Stopped and never back; only the reply handler, run on the acknowledgement
\* of the registration, moves it to Running, and in doing so it closes the
\* transferred endpoint and registers the persistent read event on the
\* retained one; no frame is read and no script is called before that.
StateRank(st) ==
    CASE st = "NotStarted" -> 0
      [] st = "WaitingForRegistration" -> 1
      [] st = "Running" -> 2
      [] st = "Stopped" -> 3
C12_State ==
    /\ log_ev <=> reply = "handled"
    /\ reply = "handled" =>
           /\ pair[TransferredFd] = "closed"
           /\ closes[TransferredFd] = 1
    /\ reply # "handled" =>
           /\ nreads = 0 /\ calls = <<>> /\ ops = <<>>
           /\ pair[TransferredFd] # "closed"
           /\ DispatchState # "Running"
    /\ DispatchState = "WaitingForRegistration" => reply = "pending"
    /\ DispatchState = "Running" => pair[RetainedFd] = "open"
C12_Step ==
    /\ StateRank(DispatchState') >= StateRank(DispatchState)
    /\ (DispatchState' = "Running" /\ DispatchState # "Running") =>
           /\ DispatchState = "WaitingForRegistration"
           /\ reply = "pending" /\ reply' = "handled"
           /\ pair[TransferredFd] = "open" /\ pair'[TransferredFd] = "closed"
    /\ (DispatchState' = "WaitingForRegistration"
            /\ DispatchState # "WaitingForRegistration") =>
           DispatchState = "NotStarted"
    /\ nreads' # nreads =>
           DispatchState = "Running" /\ DispatchState' = "Running"
C12_LoopStates ==
    /\ []C12_State
    /\ [][C12_Step]_vars

\* a frame has been read in Running, after the acknowledgement was handled
C12_Witness ==
    /\ DispatchState = "Running" /\ reply = "handled" /\ nreads > 0
    /\ pair[TransferredFd] = "closed" /\ calls # <<>>

\* C13: a read that reports the permanent closure of the channel (0 bytes
\* from a closed peer) or a non-transient error ends the dispatch loop: the
\* read callback leaves the loop asked to stop, and is not notified for the
\* same condition again.
PermanentFailure == LastRead /\ (r = 0 \/ (r = -1 /\ errno # "EAGAIN"))
C13_ClosedChannelStopsLoop ==
    PermanentFailure => (term \/ DispatchState = "Stopped")

\* C14: a read that fails with a transient error, or that yields a frame
\* the length check rejects, ends that read cycle only: the loop stays in
\* Running with its read event registered, nothing of the rejected frame is
\* kept, and a valid frame read afterwards is dispatched to every script
\* with its own contents.
LastDiscarded ==
    LastRead /\ ~(r >= HeaderSize /\ WireCount = (r - HeaderSize) \div ResultSize)
DiscardedRead(k) ==
    ~wellformed[k] /\ \A p \in 1..Len(calls) : calls[p].frame # k
C14_DiscardKeepsLoop ==
    /\ unread = <<>>
    /\ LastDiscarded =>
           /\ lastCalls = <<>> /\ sm_state = "none"
           /\ ~term => (pc = "loop" /\ log_ev /\ DispatchState = "Running")
    /\ (LastRead /\ ExactLength /\ \E k \in 1..(nreads - 1) : DiscardedRead(k)) =>
           /\ Len(lastCalls) = Len(scripts)
           /\ \A j \in 1..Len(lastCalls) :
                  /\ lastCalls[j].cbref = scripts[j]
                  /\ lastCalls[j].args = WirePayload

\* a rejected frame was followed by a valid one, dispatched to two scripts
C14_Witness ==
    /\ nreads = 2 /\ DiscardedRead(1) /\ ExactLength
    /\ Len(scripts) = 2 /\ Len(lastCalls) = 2 /\ WireCount >= 1

\* C15: every frame the read callback discards, a frame shorter than the
\* header included, leaves a warning in the log.
C15_EveryDiscardWarns ==
    LastDiscarded => \E i \in 1..Len(msgs) : msgs[i].level = "warn"

\* C16: the retained endpoint is closed exactly once, by start_log_helper
\* after the event loop has returned and before the process exits; it is
\* never closed while the loop can still run the read callback, and no read
\* happens on it once it is closed.
C16_State ==
    /\ closes[RetainedFd] <= 1
    /\ (closes[RetainedFd] = 1) <=> (pair[RetainedFd] = "closed")
    /\ pair[RetainedFd] = "closed" =>
           /\ pc \in {"shutdown", "exited"}
           /\ loop_entered
    /\ (pc = "exited" /\ loop_entered) => closes[RetainedFd] = 1
    /\ pc \in {"enter_loop", "loop"} => pair[RetainedFd] = "open"
C16_Step ==
    /\ nreads' # nreads =>
           pair[RetainedFd] = "open" /\ pair'[RetainedFd] = "open"
    /\ closes'[RetainedFd] # closes[RetainedFd] =>
           pc = "close" /\ pc' = "shutdown"
C16_ClosedOnceAfterLoop ==
    /\ []C16_State
    /\ [][C16_Step]_vars

\* the process has exited after a loop that read frames, one close done
C16_Witness ==
    /\ pc = "exited" /\ loop_entered /\ nreads > 0
    /\ closes[RetainedFd] = 1 /\ pair[RetainedFd] = "closed"

\* C17: once termination is requested no new read cycle starts; a dispatch
\* in progress when the request arrives still calls every script with the
\* frame and releases its event; and the shutdown path is then run: the
\* loop returns, the retained endpoint is closed and the process exits.
C17_State ==
    term_in_dispatch =>
        /\ term
        /\ Len(lastCalls) = Len(scripts)
        /\ \A j \in 1..Len(lastCalls) :
               /\ lastCalls[j].cbref = scripts[j]
               /\ lastCalls[j].args = WirePayload
        /\ sm_state = "freed"
C17_Step ==
    term => (nreads' = nreads /\ calls' = calls)
C17_GracefulStop ==
    /\ []C17_State
    /\ [][C17_Step]_vars
    /\ term ~> (pc = "exited" /\ pair[RetainedFd] = "closed")

\* the request arrived while the first of two scripts was being called
C17_Witness ==
    /\ term_in_dispatch /\ pc = "loop"
    /\ Len(scripts) = 2 /\ Len(lastCalls) = 2 /\ WireCount >= 1

\* C18: a well-formed frame longer than the buffer is truncated to the
\* buffer by the read, the truncated frame fails the length check and is
\* rejected without a dispatch, and the part that did not fit is gone: no
\* later read is completed with it.
WellFormedSent == sentlen = HeaderSize + WireCount * ResultSize
C18_OversizedRejected ==
    /\ unread = <<>>
    /\ LastRead /\ r >= 0 => (r = Min(sentlen, BufSize) /\ buf = Frame(r, buf[1]))
    /\ (LastRead /\ r >= 0 /\ sentlen > BufSize /\ WellFormedSent) =>
           /\ r = BufSize
           /\ lastCalls = <<>> /\ CallsOfLastRead = {}
           /\ sm_state = "none"
           /\ msgs = <<BadLength(WireCount, Available(BufSize))>>

\* a frame of MaxSent units announcing MaxAnnounced results was read
C18_Witness ==
    /\ LastRead /\ sentlen = MaxSent /\ r = BufSize /\ WireCount = MaxAnnounced
    /\ scripts # <<>> /\ lastCalls = <<>>

\* C19: a ScoreEvent is allocated only for a frame that passed the length
\* check, and is released exactly once, after the last script was called,
\* whether or not the scripts failed; a rejected frame or a failed read
\* allocates nothing.
C19_EventLifetime ==
    /\ allocs = frees
    /\ sm_state \in {"none", "freed"}
    /\ LastRead =>
           /\ (sm_state = "freed") <=> Accepted(r, buf)
           /\ Accepted(r, buf) =>
                  /\ ops = <<"g_malloc">>
                             \o [k \in 1..Len(lastCalls) |-> "lua_pcall"]
                             \o <<"g_free">>
                  /\ Len(lastCalls) = Len(scripts)
           /\ ~Accepted(r, buf) => (ops = <<>> /\ lastCalls = <<>>)
    /\ ~LastRead => (allocs = 0 /\ ops = <<>>)

\* an accepted frame whose first script failed has been released
C19_Witness ==
    /\ LastRead /\ sm_state = "freed" /\ Len(lastCalls) = 2
    /\ ~lastCalls[1].ok /\ allocs = nreads /\ frees = nreads

\* C20: the read asks for at most the buffer, and every unit the callback
\* and the payload construction load lies within the received length.
C20_AccessWithinReceived ==
    /\ LastRead => r <= BufSize
    /\ (LastRead /\ r >= 0) => max_off <= r
    /\ (LastRead /\ r < 0) => max_off = 0
    /\ (LastRead /\ lastCalls # <<>>) =>
           /\ HeaderSize + WireCount * ResultSize <= r
           /\ \A j \in 1..Len(lastCalls) :
                  \A i \in 1..Len(lastCalls[j].args.symbols) :
                      /\ lastCalls[j].args.symbols[i][1] # Junk
                      /\ lastCalls[j].args.symbols[i][2] # Junk

\* a full buffer was dispatched and its last unit loaded
C20_Witness ==
    /\ LastRead /\ r = BufSize /\ lastCalls # <<>>
    /\ max_off = BufSize /\ WireCount = Available(BufSize)

\* C21: the Lua stack is balanced across dispatch: for every announced
\* count the calls made for one script leave the function and five
\* arguments, and after each script call, whether it succeeded or failed and
\* had its error message popped, the depth is the depth before that call; so
\* after any number of frames and scripts the depth is that at loop start.
C21_StackBalanced ==
    /\ \A n \in 0..MaxAnnounced : StackSum(HandlerPushes(n)) = PcallArgs + 1
    /\ lua_top = 0
    /\ Len(lua_tops) = Len(lastCalls)
    /\ \A k \in 1..Len(lua_tops) : lua_tops[k] = 0

\* the second frame was given to two scripts, the first of which failed,
\* after a script had failed on the first frame
C21_Witness ==
    /\ nreads = 2 /\ failed_before
    /\ Len(lastCalls) = 2 /\ ~lastCalls[1].ok /\ lastCalls[2].ok
    /\ WireCount >= 1
    /\ Len(lua_tops) = 2 /\ lua_top = 0

====
